---- MODULE Spec2Model ----
(***************************************************************************)
(* Model of src/texture.rs of glium_voxel: the texture atlas builder       *)
(* (AtlasBuilder::new / load / min_alpha / complete), the RGBA loader       *)
(* load_rgba8, and the parts of the `image` crate they use (ImageBuf,       *)
(* SubImage, the row-major pixel iterators).                                *)
(*                                                                         *)
(* A pixel is the number rgb * 256 + a: `rgb` stands for the three colour   *)
(* channels, `a` is the alpha channel (0..255), as in a packed RGBA word.   *)
(* An image buffer is the record                                            *)
(* [width, height, pixels] with `pixels` the row-major Vec of the crate     *)
(* (index y * width + x, 1-based here).                                     *)
(*                                                                         *)
(* The file system is the environment: a tile name is opaque, so the i-th   *)
(* distinct tile name a caller loads is called <<"tile", i>>; what its file *)
(* holds is fixed by the file-system variant `fs` chosen in Init.  The      *)
(* names <<"odd", j>> are files that are missing, of an unsupported colour  *)
(* type, or of odd dimensions; they can be asked for at any time.           *)
(***************************************************************************)
EXTENDS Integers, Sequences, FiniteSets, TLC

VARIABLES
    image,                \* self.image: [width, height, pixels]
    unit_width,           \* self.unit_width
    unit_height,          \* self.unit_height
    completed_tiles_size, \* self.completed_tiles_size
    position,             \* self.position
    tile_positions,       \* self.tile_positions: name -> <<x, y>> (pixels)
    min_alpha_cache,      \* self.min_alpha_cache: <<x, y, w, h>> -> alpha
    fs,                   \* which files the base path holds (environment)
    phase,                \* "live", "panicked" (the task unwound), "completed";
                          \* "colormap" where a ColorMap is what exists
    op,                   \* the last call made: <<"new">>, <<"load", name>>, ...
    ret                   \* what the last call returned (<<>> when nothing)

vars == <<image, unit_width, unit_height, completed_tiles_size, position,
          tile_positions, min_alpha_cache, fs, phase, op, ret>>

builder == <<image, unit_width, unit_height, completed_tiles_size, position,
             tile_positions, min_alpha_cache>>

----------------------------------------------------------------------------
(* Bounds of the model.                                                    *)

\* Distinct names placed in the atlas in one run (17 are needed to grow).
MaxTiles == 18

\* Distinct names placed in the long run (65 are needed to grow twice).
MaxLongTiles == 66

\* A tile unit has at most MaxUnitArea pixels (1x1, 1x2, 2x1, ...).
MaxUnitArea == 2

\* Entries the alpha cache is let grow to.
MaxCached == 1

\* What the base path holds (see TileKind, TileFrames, TilePixel):
\*   "plain": every tile a one-frame RGBA file;
\*   "mixed": RGBA and RGB files of no, one or two frames.
\* The long run has a directory "long": RGBA files of no, one or two frames.
FsVariants == {"plain", "mixed"}

\* The atlas starts InitialTiles x InitialTiles tile units large.
InitialTiles == 4

\* Alpha given to a pixel converted from RGB (u8 max, Pixel::to_rgba).
OpaqueAlpha == 255

Units == {u \in (1..MaxUnitArea) \X (1..MaxUnitArea) : u[1] * u[2] <= MaxUnitArea}

\* The builder of the scenario of the specification: 16 x 16 tiles.
ScenarioUnits == {<<16, 16>>}

\* The builder of the long run: tiles one pixel wide and two high.
LongUnits == {<<1, 2>>}

Min(a, b) == IF a <= b THEN a ELSE b

----------------------------------------------------------------------------
(* The image crate: ImageBuf, SubImage and their pixel iterators.          *)

\* Rgba(r, g, b, a)
Rgba(rgb, a) == rgb * 256 + a

\* Rgba<u8> zero: what ImageBuf::new fills the buffer with.
DefaultPixel == Rgba(0, 0)

\* Pixel::alpha
Alpha(p) == p % 256

\* Pixel::to_rgba of an Rgb pixel: the colour with full alpha.
ToRgba(rgb) == Rgba(rgb, OpaqueAlpha)

\* ImageBuf::new(w, h)
ImageBufNew(w, h) ==
    [width |-> w, height |-> h, pixels |-> [k \in 1..(w * h) |-> DefaultPixel]]

\* GenericImage::dimensions
Dimensions(img) == <<img.width, img.height>>

\* GenericImage::get_pixel(x, y)
GetPixel(img, x, y) == img.pixels[y * img.width + x + 1]

\* The k-th item (k = 0, 1, ...) of img.pixels(): x runs fastest.
NthPixel(img, k) == GetPixel(img, k % img.width, k \div img.width)

\* Number of items img.pixels() yields.
PixelCount(img) == img.width * img.height

\* for (a, b) in SubImage::new(dest, x0, y0, w, h).pixels_mut().zip(src.pixels())
\*     { *a = b }
\* The sub-image iterator walks its own w x h grid row by row, the source
\* iterator walks the source row by row; zip stops with the shorter of them.
ZipCopy(dest, x0, y0, w, h, src) ==
    LET n == Min(w * h, PixelCount(src))
        Written(x, y) ==
            /\ x >= x0 /\ x < x0 + w
            /\ y >= y0 /\ y < y0 + h
            /\ (y - y0) * w + (x - x0) < n
    IN  [dest EXCEPT !.pixels =
            [i \in 1..Len(dest.pixels) |->
                LET x == (i - 1) % dest.width
                    y == (i - 1) \div dest.width
                IN  IF Written(x, y)
                    THEN NthPixel(src, (y - y0) * w + (x - x0))
                    ELSE dest.pixels[i]]]

----------------------------------------------------------------------------
(* The files under the base path.                                          *)

TileNames ==
    {<<"tile", i>> : i \in 1..(IF MaxLongTiles > MaxTiles THEN MaxLongTiles ELSE MaxTiles)}
OddNames == {<<"odd", j>> : j \in 1..4}
Names == TileNames \cup OddNames

\* Colour type of the i-th tile's file.
TileKind(v, i) == IF v = "mixed" /\ i % 2 = 0 THEN "rgb" ELSE "rgba"

\* Frames (stacked unit_height rows) in the i-th tile's file.
TileFrames(v, i) ==
    IF v = "plain" THEN 1
    ELSE IF i % 5 = 4 THEN 0 ELSE IF i % 3 = 0 THEN 2 ELSE 1

\* Pixel k (row-major, from 0) of the i-th tile's file: the colour tells the
\* tile and the place in the file, the alpha depends on the variant.
TilePixel(v, i, k) ==
    Rgba(1000 * i + k,
         IF v = "plain"
         THEN (IF i % 3 = 1 THEN 255 ELSE IF i % 3 = 2 THEN 128 ELSE 0)
         ELSE (IF (i + k) % 3 = 0 THEN 64 ELSE IF (i + k) % 3 = 1 THEN 200 ELSE 255))

\* What image::open finds for a name: [kind, width, height, pixels].
\*   kind "rgba" / "rgb": a decoded image; "luma": another colour type;
\*   "error": the file is missing or corrupt.
\* The odd names: 1 is missing, 2 is greyscale, 3 is one pixel too wide,
\* 4 is one row too high (with unit_height = 1 every height is a multiple
\* of it, and 4 is missing).
File(v, name, uw, uh) ==
    IF name[1] = "tile"
    THEN LET i == name[2]
             h == TileFrames(v, i) * uh
         IN  [kind |-> TileKind(v, i), width |-> uw, height |-> h,
              pixels |-> [k \in 1..(uw * h) |-> TilePixel(v, i, k - 1)]]
    ELSE CASE name[2] = 1 \/ (name[2] = 4 /\ uh = 1) ->
                [kind |-> "error", width |-> 0, height |-> 0, pixels |-> <<>>]
           [] name[2] = 2 ->
                [kind |-> "luma", width |-> uw, height |-> uh,
                 pixels |-> [k \in 1..(uw * uh) |-> Rgba(7, 255)]]
           [] name[2] = 3 ->
                [kind |-> "rgba", width |-> uw + 1, height |-> uh,
                 pixels |-> [k \in 1..((uw + 1) * uh) |-> Rgba(8, 255)]]
           [] OTHER ->
                [kind |-> "rgba", width |-> uw, height |-> uh + 1,
                 pixels |-> [k \in 1..(uw * (uh + 1)) |-> Rgba(9, 200)]]

\* load_rgba8: Ok(img) for RGBA, Ok(img with opaque alpha) for RGB, Err
\* for another colour type and for a file that cannot be opened.
load_rgba8(file) ==
    CASE file.kind = "rgba" ->
            [ok |-> TRUE,
             img |-> [width |-> file.width, height |-> file.height,
                      pixels |-> file.pixels]]
      [] file.kind = "rgb" ->
            [ok |-> TRUE,
             img |-> [width |-> file.width, height |-> file.height,
                      pixels |-> [k \in 1..Len(file.pixels) |->
                                     ToRgba(file.pixels[k] \div 256)]]]
      [] OTHER -> [ok |-> FALSE]

\* load_rgba8(&path) for path = self.path.join(name) with extension "png".
Decode(name) == load_rgba8(File(fs, name, unit_width, unit_height))

----------------------------------------------------------------------------
(* AtlasBuilder                                                            *)

\* AtlasBuilder::new(path, unit_width, unit_height)
New(uw, uh, v) ==
    /\ image = ImageBufNew(uw * InitialTiles, uh * InitialTiles)
    /\ unit_width = uw
    /\ unit_height = uh
    /\ completed_tiles_size = 0
    /\ position = 0
    /\ tile_positions = <<>>
    /\ min_alpha_cache = <<>>
    /\ fs = v
    /\ phase = "live"
    /\ op = <<"new">>
    /\ ret = <<>>

Init == \E u \in Units, v \in FsVariants : New(u[1], u[2], v)

InitScenario == \E u \in ScenarioUnits : New(u[1], u[2], "plain")

InitLong == \E u \in LongUnits : New(u[1], u[2], "long")

\* Names placed in one run.
TileLimit == IF fs = "long" THEN MaxLongTiles ELSE MaxTiles

\* Mutant: a cached name is decoded and placed again.
LoadCachedReloads(name) ==
    /\ phase = "live"
    /\ name \in DOMAIN tile_positions
    /\ LET xy == IF position < completed_tiles_size
                 THEN <<position, completed_tiles_size>>
                 ELSE <<completed_tiles_size, position - completed_tiles_size>>
           pos == <<xy[1] * unit_width, xy[2] * unit_height>>
       IN  /\ position' = position + 1
           /\ tile_positions' = [tile_positions EXCEPT ![name] = pos]
           /\ ret' = pos
    /\ op' = <<"load", name>>
    /\ UNCHANGED <<image, unit_width, unit_height, completed_tiles_size,
                   min_alpha_cache, fs, phase>>

\* load, lines 103-106: the name is in tile_positions.
LoadCached(name) ==
    /\ phase = "live"
    /\ name \in DOMAIN tile_positions
    /\ op' = <<"load", name>>
    /\ ret' = tile_positions[name]
    /\ UNCHANGED <<builder, fs, phase>>

\* load, line 110: load_rgba8(&path).unwrap() panics on Err.
LoadDecodeFails(name) ==
    /\ phase = "live"
    /\ name \notin DOMAIN tile_positions
    /\ ~Decode(name).ok
    /\ phase' = "panicked"
    /\ op' = <<"load", name>>
    /\ ret' = <<>>
    /\ UNCHANGED <<builder, fs>>

\* load, lines 112-114: the two assert!s on the decoded dimensions.
DimensionsOk(img) ==
    /\ img.width = unit_width
    /\ img.height % unit_height = 0

\* Mutant: the cursor is advanced before the dimensions are asserted.
LoadAssertFailsLate(name) ==
    /\ phase = "live"
    /\ name \notin DOMAIN tile_positions
    /\ Decode(name).ok
    /\ ~DimensionsOk(Decode(name).img)
    /\ phase' = "panicked"
    /\ op' = <<"load", name>>
    /\ ret' = <<>>
    /\ position' = position + 1
    /\ UNCHANGED <<image, unit_width, unit_height, completed_tiles_size,
                   tile_positions, min_alpha_cache, fs>>

LoadAssertFails(name) ==
    /\ phase = "live"
    /\ name \notin DOMAIN tile_positions
    /\ Decode(name).ok
    /\ ~DimensionsOk(Decode(name).img)
    /\ phase' = "panicked"
    /\ op' = <<"load", name>>
    /\ ret' = <<>>
    /\ UNCHANGED <<builder, fs>>

\* Mutant: the expansion comes one ring early.
MustExpandEarly ==
    /\ position = 0
    /\ \/ unit_width * (completed_tiles_size + 1) >= image.width
       \/ unit_height * (completed_tiles_size + 1) >= image.height

\* Mutant: > for >= in the condition of the expansion.
MustExpandLate ==
    /\ position = 0
    /\ \/ unit_width * completed_tiles_size > image.width
       \/ unit_height * completed_tiles_size > image.height

\* load, line 124: the condition of the expansion.
MustExpand ==
    LET w == image.width
        h == image.height
        size == completed_tiles_size
    IN  position = 0 /\ (unit_width * size >= w \/ unit_height * size >= h)

\* Mutant: the old pixels are zipped into the new buffer itself, not into
\* its top-left sub-image.
ExpandFlat(old) ==
    ZipCopy(ImageBufNew(old.width * 2, old.height * 2),
            0, 0, old.width * 2, old.height * 2, old)

\* Mutant: the new buffer is four times as wide and high.
ExpandFourfold(old) ==
    ZipCopy(ImageBufNew(old.width * 4, old.height * 4),
            0, 0, old.width, old.height, old)

\* Mutant: the buffer is replaced and the old pixels are not copied.
ExpandEmpty(old) == ImageBufNew(old.width * 2, old.height * 2)

\* load, lines 125-129: a buffer twice as wide and high, the old pixels
\* zipped into its top-left w x h sub-image.
Expand(old) ==
    ZipCopy(ImageBufNew(old.width * 2, old.height * 2),
            0, 0, old.width, old.height, old)

\* Mutant: <= for < in the choice between row and column.
SlotOffByOne(pos, size) ==
    IF pos <= size THEN <<pos, size>> ELSE <<size, pos - size>>

\* Mutant: the column right of the square is filled before the row below.
SlotColumnFirst(pos, size) ==
    IF pos <= size THEN <<size, pos>> ELSE <<pos - size - 1, size>>

\* load, lines 132-136: the slot, in tiles, of the tile being placed.
Slot(pos, size) == IF pos < size THEN <<pos, size>> ELSE <<size, pos - size>>

\* Mutant: the ring ends one tile early.
AdvanceEarly(pos, size) ==
    IF pos + 1 >= size * 2 THEN <<0, size + 1>> ELSE <<pos + 1, size>>

\* Mutant: > for >= at the end of the ring.
AdvanceLate(pos, size) ==
    IF pos + 1 > size * 2 + 1 THEN <<0, size + 1>> ELSE <<pos + 1, size>>

\* load, lines 138-142: the cursor after the placement, <<position, size>>.
Advance(pos, size) ==
    IF pos + 1 >= size * 2 + 1 THEN <<0, size + 1>> ELSE <<pos + 1, size>>

\* Mutant: every frame of the file is copied, not the first alone.
CopyTileAllFrames(dest, x, y, img) ==
    ZipCopy(dest, x * unit_width, y * unit_height, unit_width, img.height, img)

\* load, lines 144-147: the tile zipped into its slot of the atlas.
CopyTile(dest, x, y, img) ==
    ZipCopy(dest, x * unit_width, y * unit_height, unit_width, unit_height, img)

\* Mutant: the insertion rebuilds the map around the new entry alone.
InsertAlone(map, key, value) == [k \in {key} |-> value]

\* load, lines 149-152: the Vacant entry is set and returned.
Insert(map, key, value) ==
    [k \in DOMAIN map \cup {key} |-> IF k = key THEN value ELSE map[k]]

\* load, lines 108-152, for a name that is not cached and decodes well.
LoadPlace(name) ==
    /\ phase = "live"
    /\ name \notin DOMAIN tile_positions
    /\ Cardinality(DOMAIN tile_positions) < TileLimit
    /\ name[1] = "tile" =>
          name[2] = Cardinality({n \in DOMAIN tile_positions : n[1] = "tile"}) + 1
    /\ Decode(name).ok
    /\ DimensionsOk(Decode(name).img)
    /\ LET img == Decode(name).img
           size == completed_tiles_size
           expanded == IF MustExpand THEN Expand(image) ELSE image
           xy == Slot(position, size)
           next == Advance(position, size)
           pos == <<xy[1] * unit_width, xy[2] * unit_height>>
       IN  /\ position' = next[1]
           /\ completed_tiles_size' = next[2]
           /\ image' = CopyTile(expanded, xy[1], xy[2], img)
           /\ tile_positions' = Insert(tile_positions, name, pos)
           /\ ret' = pos
    /\ op' = <<"load", name>>
    /\ UNCHANGED <<unit_width, unit_height, min_alpha_cache, fs, phase>>

\* The alphas of SubImage::new(img, x, y, w, h).pixels().
RectAlphas(img, rect) ==
    {Alpha(GetPixel(img, rect[1] + i, rect[2] + j)) :
        i \in 0..(rect[3] - 1), j \in 0..(rect[4] - 1)}

\* min_alpha, lines 163-165: .min().unwrap_or(0)
ScanMinAlpha(img, rect) ==
    LET as == RectAlphas(img, rect)
    IN  IF as = {} THEN 0 ELSE CHOOSE a \in as : \A b \in as : a <= b

\* The rectangle lies within the image.
InBounds(img, rect) ==
    /\ rect[1] + rect[3] <= img.width
    /\ rect[2] + rect[4] <= img.height

\* Rectangles callers ask about: the slots of the first two tiles and of the
\* first tile placed after an expansion, a block of four slots, and a
\* rectangle without pixels.
QueryRects ==
    LET uw == unit_width
        uh == unit_height
    IN  {<<0, ty * uh, uw, uh>> : ty \in {0, 1, InitialTiles}}
        \cup {<<0, 0, 2 * uw, 2 * uh>>, <<uw, 0, 0, uh>>}

\* Mutant: a cached rectangle is scanned again and its entry overwritten.
MinAlphaCachedRescans(rect) ==
    /\ phase = "live"
    /\ rect \in DOMAIN min_alpha_cache
    /\ LET as == {Alpha(GetPixel(image, rect[1] + i, rect[2] + j)) :
                     i \in 0..(rect[3] - 1), j \in 0..(rect[4] - 1)}
           min_alpha == IF as = {} THEN 0 ELSE CHOOSE a \in as : \A b \in as : a <= b
       IN  /\ min_alpha_cache' = [min_alpha_cache EXCEPT ![rect] = min_alpha]
           /\ ret' = min_alpha
    /\ op' = <<"min_alpha", rect>>
    /\ UNCHANGED <<image, unit_width, unit_height, completed_tiles_size,
                   position, tile_positions, fs, phase>>

\* min_alpha, lines 158-161: the rectangle is in the cache.
MinAlphaCached(rect) ==
    /\ phase = "live"
    /\ rect \in DOMAIN min_alpha_cache
    /\ op' = <<"min_alpha", rect>>
    /\ ret' = min_alpha_cache[rect]
    /\ UNCHANGED <<builder, fs, phase>>

\* min_alpha, lines 163-167: scan, insert, return.
MinAlphaScan(rect) ==
    /\ phase = "live"
    /\ rect \notin DOMAIN min_alpha_cache
    /\ InBounds(image, rect)
    /\ Cardinality(DOMAIN min_alpha_cache) < MaxCached
    /\ LET min_alpha == ScanMinAlpha(image, rect)
       IN  /\ min_alpha_cache' = Insert(min_alpha_cache, rect, min_alpha)
           /\ ret' = min_alpha
    /\ op' = <<"min_alpha", rect>>
    /\ UNCHANGED <<image, unit_width, unit_height, completed_tiles_size,
                   position, tile_positions, fs, phase>>

\* complete: the builder is consumed, its image becomes the texture.
Complete ==
    /\ phase = "live"
    /\ phase' = "completed"
    /\ op' = <<"complete">>
    /\ ret' = image
    /\ UNCHANGED <<builder, fs>>

Next ==
    \/ \E name \in Names : LoadCached(name)
    \/ \E name \in Names : LoadDecodeFails(name)
    \/ \E name \in Names : LoadAssertFails(name)
    \/ \E name \in Names : LoadPlace(name)
    \/ \E rect \in QueryRects : MinAlphaCached(rect)
    \/ \E rect \in QueryRects : MinAlphaScan(rect)
    \/ Complete

Spec == Init /\ [][Next]_vars

\* The scenario of the specification is a sequence of loads.
NextScenario ==
    \/ \E name \in Names : LoadCached(name)
    \/ \E name \in Names : LoadDecodeFails(name)
    \/ \E name \in Names : LoadAssertFails(name)
    \/ \E name \in Names : LoadPlace(name)
    \/ Complete

SpecScenario == InitScenario /\ [][NextScenario]_vars

\* The long run: loads until the canvas has doubled twice.
SpecLong == InitLong /\ [][NextScenario]_vars

----------------------------------------------------------------------------
(* ColorMap                                                                *)
(*                                                                         *)
(* An f32 is <<"num", n>> for the number n / ColorSteps, <<"nan", 0>>, or   *)
(* <<"inf", 1>> and <<"inf", -1>> for the infinities.  With ColorSteps a    *)
(* power of two the numbers and every intermediate result of get are exact  *)
(* in f32.  A scaled coordinate is a fraction <<numerator, denominator>>.   *)

\* Steps per unit of the f32 arguments tried.
ColorSteps == 4

\* Side of the colour map image.
ColorMapSize == 256

\* Factor from [0.0, 1.0] to pixel coordinates.
ColorScale == 255

NaN == <<"nan", 0>>
PosInf == <<"inf", 1>>
NegInf == <<"inf", -1>>
Zero == <<"num", 0>>
One == <<"num", ColorSteps>>

\* The arguments tried: -1.0 .. 2.0 in steps, -5.0, NaN and the infinities.
F32Inputs ==
    {<<"num", n>> : n \in (-ColorSteps..(2 * ColorSteps)) \cup {-5 * ColorSteps}}
    \cup {NaN, PosInf, NegInf}

\* a <= b for two f32 that are not NaN.
FLe(a, b) ==
    CASE a = NegInf \/ b = PosInf -> TRUE
      [] a = PosInf \/ b = NegInf -> FALSE
      [] OTHER -> a[2] <= b[2]

\* f32::max and f32::min: of a NaN and a number, the number.
FMax(a, b) == IF a = NaN THEN b ELSE IF b = NaN THEN a ELSE IF FLe(a, b) THEN b ELSE a
FMin(a, b) == IF a = NaN THEN b ELSE IF b = NaN THEN a ELSE IF FLe(a, b) THEN a ELSE b

\* Mutant: the upper limit of the clamp is forgotten.
ClampBelow(x) == FMax(x, Zero)

\* get, lines 50-51: x.max(0.0).min(1.0)
Clamp(x) == FMin(FMax(x, Zero), One)

\* get, lines 54 and 57-58, before the casts: (1.0 - x) * 255.0 and
\* (1.0 - x * y) * 255.0 for the clamped x and y, as fractions.
ScaledX(x) == <<(ColorSteps - x[2]) * ColorScale, ColorSteps>>
ScaledY(x, y) ==
    <<(ColorSteps * ColorSteps - x[2] * y[2]) * ColorScale, ColorSteps * ColorSteps>>

\* `as u8` of a float: the truncation where it fits a u8, any u8 where it
\* does not (the cast is undefined there).
CastU8(q) ==
    IF q[1] > -q[2] /\ q[1] < ColorMapSize * q[2]
    THEN {IF q[1] >= 0 THEN q[1] \div q[2] ELSE 0}
    ELSE 0..(ColorMapSize - 1)

\* The image of the ColorMap (from_path took it, 256 x 256, lines 37-45):
\* the colour of a pixel tells its coordinates.
ColorMapImage ==
    [width |-> ColorMapSize, height |-> ColorMapSize,
     pixels |-> [k \in 1..(ColorMapSize * ColorMapSize) |-> Rgba(k, 255)]]

\* Pixel::channels without the alpha: [r, g, b].
Rgb(p) == p \div 256

\* ColorMap::from_path returned Ok: a ColorMap and no AtlasBuilder, whose
\* variables stay as they are throughout.
InitColorMap ==
    /\ image = ImageBufNew(0, 0)
    /\ unit_width = 1
    /\ unit_height = 1
    /\ completed_tiles_size = 0
    /\ position = 0
    /\ tile_positions = <<>>
    /\ min_alpha_cache = <<>>
    /\ fs = "plain"
    /\ phase = "colormap"
    /\ op = <<"from_path">>
    /\ ret = <<>>

\* ColorMap::get(x, y)
Get(x, y) ==
    /\ phase = "colormap"
    /\ LET cx == Clamp(x)
           cy == Clamp(y)
       IN  \E px \in CastU8(ScaledX(cx)), py \in CastU8(ScaledY(cx, cy)) :
              ret' = Rgb(GetPixel(ColorMapImage, px, py))
    /\ op' = <<"get", x, y>>
    /\ UNCHANGED <<builder, fs, phase>>

NextColorMap == \E x \in F32Inputs, y \in F32Inputs : Get(x, y)

SpecColorMap == InitColorMap /\ [][NextColorMap]_vars

----------------------------------------------------------------------------
(* Vocabulary of the properties.                                           *)

Cached == DOMAIN tile_positions

Loaded == Cardinality(Cached)

\* The step is a call f(arg).
Called(f, arg) == op'[1] = f /\ op'[2] = arg

\* The state follows a call f(arg).
LastCall(f, arg) == op[1] = f /\ op[2] = arg

\* The step is a load that places a name.
Places(n) == Called("load", n) /\ n \notin Cached /\ n \in DOMAIN tile_positions'

\* Minimum alpha over the pixels of a rectangle, 0 for no pixels.
TrueMinAlpha(img, rect) ==
    LET as == {Alpha(GetPixel(img, x, y)) :
                  x \in rect[1]..(rect[1] + rect[3] - 1),
                  y \in rect[2]..(rect[2] + rect[4] - 1)}
    IN  IF as = {} THEN 0 ELSE CHOOSE a \in as : \A b \in as : a <= b

\* Every rectangle with pixels inside a w x h canvas.
RectsWithin(w, h) ==
    {r \in (0..(w - 1)) \X (0..(h - 1)) \X (1..w) \X (1..h) :
        r[1] + r[3] <= w /\ r[2] + r[4] <= h}

\* The ring (the completed size at placement) a pixel position lies in.
RingOf(p) ==
    LET tx == p[1] \div unit_width
        ty == p[2] \div unit_height
    IN  IF tx >= ty THEN tx ELSE ty

TilesInRing(s) == Cardinality({n \in Cached : RingOf(tile_positions[n]) = s})

----------------------------------------------------------------------------
(* The properties.                                                         *)

\* C1: a load of a name that is already cached returns the stored position
\* and changes nothing of the builder: cursor, pixels, dimensions, caches.
C1_IdempotentLoad ==
    [][\A n \in Names :
          (Called("load", n) /\ n \in Cached)
          => /\ ret' = tile_positions[n]
             /\ UNCHANGED builder]_vars

\* C1 witness: after the expansion, the first tile is loaded again.
C1_Witness ==
    /\ LastCall("load", <<"tile", 1>>)
    /\ Loaded = InitialTiles * InitialTiles + 1
    /\ ret = <<0, 0>>
    /\ image.width = 2 * InitialTiles * unit_width

\* C2: a name keeps its position in every later state; entries of
\* tile_positions are never removed or overwritten.
C2_PositionStable ==
    [][\A n \in Cached :
          /\ n \in DOMAIN tile_positions'
          /\ tile_positions'[n] = tile_positions[n]]_vars

\* C2 witness: loads, an expansion and a min_alpha call lie behind, the
\* first names are where they were put.
C2_Witness ==
    /\ Loaded = InitialTiles * InitialTiles + 2
    /\ image.width = 2 * InitialTiles * unit_width
    /\ min_alpha_cache # <<>>
    /\ tile_positions[<<"tile", 1>>] = <<0, 0>>
    /\ tile_positions[<<"tile", 2>>] = <<0, unit_height>>

\* C3: for every loaded name the slot at its position holds the first-frame
\* pixels of its file, after any later loads and expansions.
C3_ContentPreserved ==
    \A n \in Cached :
        LET img == Decode(n).img
            p == tile_positions[n]
            rows == Min(unit_height, img.height)
        IN  \A i \in 0..(unit_width - 1), j \in 0..(rows - 1) :
                GetPixel(image, p[1] + i, p[2] + j) = GetPixel(img, i, j)

\* C3 witness: the canvas has doubled over tiles of one and of two frames.
C3_Witness ==
    /\ fs = "mixed"
    /\ Loaded = InitialTiles * InitialTiles + 1
    /\ Dimensions(image) =
          <<2 * InitialTiles * unit_width, 2 * InitialTiles * unit_height>>
    /\ unit_height = 2

\* C4: whatever came before, min_alpha(rect) returns the minimum alpha over
\* the pixels of rect in the current buffer.
C4_AlphaIsTrueMinimum ==
    (phase = "live" /\ op[1] = "min_alpha")
    => ret = TrueMinAlpha(image, op[2])

\* C5: completed_tiles_size never decreases and grows by one at a time,
\* exactly when the placement made at position 2 * size ends the ring; the
\* tiles placed while the size was s number 2s + 1 for every finished ring,
\* so that size^2 + position names are cached.
C5_RingSize ==
    /\ [](/\ Loaded = completed_tiles_size * completed_tiles_size + position
          /\ position <= 2 * completed_tiles_size
          /\ \A s \in 0..completed_tiles_size :
                TilesInRing(s) = IF s < completed_tiles_size
                                 THEN 2 * s + 1 ELSE position)
    /\ [][/\ completed_tiles_size' \in
                {completed_tiles_size, completed_tiles_size + 1}
          /\ completed_tiles_size' = completed_tiles_size + 1
                => /\ Cached' # Cached
                   /\ position = 2 * completed_tiles_size
                   /\ position' = 0
          /\ (Cached' # Cached /\ completed_tiles_size' = completed_tiles_size)
                => position' = position + 1
          /\ Cached' = Cached => position' = position]_vars

\* C5 witness: the ring of size 3 has just been finished by its 7th tile.
C5_Witness ==
    /\ completed_tiles_size = 4
    /\ position = 0
    /\ Loaded = 16
    /\ TilesInRing(3) = 7

\* C6: a load of an uncached name returns (tx * unit_width, ty * unit_height)
\* with (tx, ty) = (position, size) if position < size, else
\* (size, position - size), for the cursor before the call; in a ring the
\* row below the square is filled before the column right of it.
C6_PlacementRule ==
    /\ [][\A n \in Names :
            Places(n)
            => LET tx == IF position < completed_tiles_size
                         THEN position ELSE completed_tiles_size
                   ty == IF position < completed_tiles_size
                         THEN completed_tiles_size
                         ELSE position - completed_tiles_size
               IN  /\ ret' = <<tx * unit_width, ty * unit_height>>
                   /\ tile_positions'[n] = ret']_vars
    /\ [](\A n \in Cached :
            LET p == tile_positions[n]
                s == RingOf(p)
            IN  p[1] = s * unit_width
                => \A tx \in 0..(s - 1) :
                      \E m \in Cached :
                         tile_positions[m] = <<tx * unit_width, s * unit_height>>)

\* C6 witness: a tile has just gone into the column of the ring of size 2,
\* its row being full.
C6_Witness ==
    /\ op[1] = "load"
    /\ Loaded = 7
    /\ position = 3
    /\ completed_tiles_size = 2
    /\ ret = <<2 * unit_width, 0>>
    /\ unit_width # unit_height

\* C7 as stated: with 16 x 16 tiles the second distinct tile is at (16, 0).
C7_SecondTileRight ==
    Loaded = 2 => \E n \in Cached : tile_positions[n] = <<16, 0>>

\* C7 as amended: with 16 x 16 tiles the second distinct tile is placed with
\* completed_tiles_size = 1 at tile (0, 1), pixel (0, 16); it is the third
\* that goes to (16, 0).
C7_SecondTileBelow ==
    [][\A n \in Names :
          /\ (Places(n) /\ Loaded = 1)
                => /\ completed_tiles_size = 1
                   /\ position = 0
                   /\ ret' = <<0, 16>>
          /\ (Places(n) /\ Loaded = 2) => ret' = <<16, 0>>]_vars

\* C7 witness: the second tile has just been placed.
C7_Witness ==
    /\ op[1] = "load"
    /\ Loaded = 2
    /\ ret = <<0, 16>>
    /\ tile_positions[op[2]] = <<0, 16>>
    /\ completed_tiles_size = 1
    /\ position = 1

\* C8 as stated: with 16 x 16 tiles the canvas is 128 x 128 once nine
\* distinct tiles are loaded.
C8_GrownAtNine ==
    Loaded >= 9 => Dimensions(image) = <<128, 128>>

\* C8 as amended: with 16 x 16 tiles the canvas is 64 x 64 up to the 16th
\* distinct tile and 128 x 128 from the 17th, the first load made with
\* completed_tiles_size = 4.
C8_GrownAtSeventeen ==
    /\ Loaded <= 16 => Dimensions(image) = <<64, 64>>
    /\ Loaded >= 17 => Dimensions(image) = <<128, 128>>
    /\ Loaded = 16 => completed_tiles_size = 4 /\ position = 0

\* C8 witness: the 17th tile is in, at (0, 64), on the doubled canvas.
C8_Witness ==
    /\ Loaded = 17
    /\ Dimensions(image) = <<128, 128>>
    /\ LastCall("load", <<"tile", 17>>)
    /\ ret = <<0, 64>>

\* C9: a load of an uncached name that does not decode, or decodes to a width
\* other than unit_width or to a height that is no multiple of unit_height,
\* ends the call with the builder as it was and the name not cached.
C9_FailedLoadKeepsState ==
    [][\A n \in Names :
          (/\ Called("load", n)
           /\ n \notin Cached
           /\ \/ ~Decode(n).ok
              \/ Decode(n).img.width # unit_width
              \/ Decode(n).img.height % unit_height # 0)
          => /\ UNCHANGED builder
             /\ n \notin DOMAIN tile_positions'
             /\ phase' = "panicked"]_vars

\* C9 witness: a file one row too high was asked for after tiles were
\* placed and a rectangle was scanned.
C9_Witness ==
    /\ phase = "panicked"
    /\ LastCall("load", <<"odd", 4>>)
    /\ Decode(<<"odd", 4>>).ok
    /\ Loaded = 3
    /\ min_alpha_cache # <<>>

\* C10: the expansion doubles both dimensions, keeps every pixel of the old
\* canvas at its coordinates and leaves the default pixel at every new
\* coordinate; over the whole load that expands, every rectangle within the
\* old canvas keeps its minimum alpha, so that a cached value that equalled
\* a fresh scan before still equals one after.
C10_ExpansionKeepsAlpha ==
    [][Dimensions(image') # Dimensions(image)
       => LET g == Expand(image)
              w == image.width
              h == image.height
          IN  /\ Dimensions(g) = <<2 * w, 2 * h>>
              /\ Dimensions(image') = Dimensions(g)
              /\ \A x \in 0..(2 * w - 1), y \in 0..(2 * h - 1) :
                    GetPixel(g, x, y) =
                       IF x < w /\ y < h THEN GetPixel(image, x, y)
                                         ELSE DefaultPixel
              /\ \A x \in 0..(w - 1), y \in 0..(h - 1) :
                    GetPixel(image', x, y) = GetPixel(image, x, y)
              /\ \A r \in RectsWithin(w, h) :
                    /\ TrueMinAlpha(g, r) = TrueMinAlpha(image, r)
                    /\ TrueMinAlpha(image', r) = TrueMinAlpha(image, r)
              /\ \A r \in DOMAIN min_alpha_cache :
                    /\ r \in DOMAIN min_alpha_cache'
                    /\ min_alpha_cache'[r] = min_alpha_cache[r]
                    /\ min_alpha_cache[r] = TrueMinAlpha(image, r)
                          => min_alpha_cache'[r] = TrueMinAlpha(image', r)]_vars

\* C10 witness: the load that expanded the canvas has just returned, and the
\* cache holds the true minimum of a rectangle scanned before it.
C10_Witness ==
    /\ LastCall("load", <<"tile", InitialTiles * InitialTiles + 1>>)
    /\ image.width = 2 * InitialTiles * unit_width
    /\ \E r \in DOMAIN min_alpha_cache :
          /\ r[3] > 0
          /\ min_alpha_cache[r] > 0
          /\ min_alpha_cache[r] = TrueMinAlpha(image, r)

\* The clamp of the claim: the nearest number in [0, 1], as a numerator.
ClampedTo01(f) ==
    IF f[1] = "inf" THEN (IF f[2] > 0 THEN ColorSteps ELSE 0)
    ELSE IF f[2] < 0 THEN 0 ELSE IF f[2] > ColorSteps THEN ColorSteps ELSE f[2]

\* The colour at floor((1 - u) * 255), floor((1 - u * v) * 255) for u, v
\* numerators within [0, 1].
ColourAt(u, v) ==
    LET px == ((ColorSteps - u) * 255) \div ColorSteps
        py == ((ColorSteps * ColorSteps - u * v) * 255) \div (ColorSteps * ColorSteps)
    IN  py * 256 + px + 1

\* C11: get(u, v) reads the pixel that get(clamp(u), clamp(v)) reads, the one
\* at px = floor((1 - u) * 255), py = floor((1 - u * v) * 255) of the clamped
\* arguments, and the scaled coordinates lie within 0..255 for every
\* argument (NaN included), so that the casts and the lookup are in range;
\* get(-5, 2) reads what get(0, 1) reads.
C11_ClampedLookup ==
    op[1] = "get"
    => LET u == op[2]
           v == op[3]
           sx == ScaledX(Clamp(u))
           sy == ScaledY(Clamp(u), Clamp(v))
       IN  /\ 0 <= sx[1] /\ sx[1] <= 255 * sx[2]
           /\ 0 <= sy[1] /\ sy[1] <= 255 * sy[2]
           /\ (u # NaN /\ v # NaN)
                 => ret = ColourAt(ClampedTo01(u), ClampedTo01(v))
           /\ (u = <<"num", -5 * ColorSteps>> /\ v = <<"num", 2 * ColorSteps>>)
                 => ret = ColourAt(0, ColorSteps)

\* C11 witness: get(-5, 2) has read the pixel (255, 255).
C11_Witness ==
    /\ op = <<"get", <<"num", -5 * ColorSteps>>, <<"num", 2 * ColorSteps>>>>
    /\ ret = 255 * 256 + 255 + 1

\* C12: the dimensions of the buffer change only in a load that places a
\* name, starts at position 0 and finds unit_width * size >= width or
\* unit_height * size >= height; such a load doubles both dimensions, once,
\* and puts its tile into the doubled buffer.  From the initial canvas the
\* first such load is the one made with size 4, of the 17th name.
C12_GrowthTrigger ==
    [][LET w == image.width
           h == image.height
           due == /\ position = 0
                  /\ \/ unit_width * completed_tiles_size >= w
                     \/ unit_height * completed_tiles_size >= h
           grown == Dimensions(image') # Dimensions(image)
       IN  /\ grown => /\ \E n \in Names : Places(n)
                       /\ due
                       /\ Dimensions(image') = <<2 * w, 2 * h>>
           /\ \A n \in Names :
                 (Places(n) /\ due)
                 => /\ Dimensions(image') = <<2 * w, 2 * h>>
                    /\ ret' = <<0, h>>
                    /\ Decode(n).img.height > 0
                          => GetPixel(image', 0, h) = NthPixel(Decode(n).img, 0)
           /\ (grown /\ w = InitialTiles * unit_width)
                 => /\ completed_tiles_size = 4
                    /\ Loaded = 16]_vars

\* C12 witness: the 17th name has just been placed on the doubled canvas,
\* a rectangle having been scanned before.
C12_Witness ==
    /\ LastCall("load", <<"tile", 17>>)
    /\ Dimensions(image) = <<8 * unit_width, 8 * unit_height>>
    /\ ret = <<0, 4 * unit_height>>
    /\ min_alpha_cache # <<>>
    /\ position = 1

\* C13: the slot a load writes, the one its cursor names, lies within the
\* buffer at the copy: (tx + 1) * unit_width <= width and
\* (ty + 1) * unit_height <= height; so does the slot of every cached name.
C13_PlacementInBounds ==
    /\ [][\A n \in Names :
            Places(n)
            => LET tx == IF position < completed_tiles_size
                         THEN position ELSE completed_tiles_size
                   ty == IF position < completed_tiles_size
                         THEN completed_tiles_size
                         ELSE position - completed_tiles_size
               IN  /\ (tx + 1) * unit_width <= image'.width
                   /\ (ty + 1) * unit_height <= image'.height
                   /\ ret' = <<tx * unit_width, ty * unit_height>>]_vars
    /\ [](\A n \in Cached :
            /\ tile_positions[n][1] + unit_width <= image.width
            /\ tile_positions[n][2] + unit_height <= image.height)

\* C13 witness: the first tile of the ring of size 8 is in, on the canvas
\* doubled for the second time.
C13_Witness ==
    /\ op[1] = "load"
    /\ Loaded = 65
    /\ ret = <<0, 8 * unit_height>>
    /\ Dimensions(image) = <<16 * unit_width, 16 * unit_height>>

\* C14: the canvas is W * unit_width by W * unit_height with W = 4 * 2^k,
\* the completed size is at most W and, once W > 4, at least W / 2, so that
\* at least W^2 / 4 slots are taken.
C14_CanvasSizing ==
    \E k \in 0..4 :
        LET W == InitialTiles * 2 ^ k
        IN  /\ Dimensions(image) = <<W * unit_width, W * unit_height>>
            /\ completed_tiles_size <= W
            /\ W > InitialTiles
                  => /\ 2 * completed_tiles_size >= W
                     /\ 4 * Loaded >= W * W

\* C14 witness: the canvas is 16 tiles wide and the completed size is 8.
C14_Witness ==
    /\ image.width = 16 * unit_width
    /\ completed_tiles_size = 8
    /\ Loaded >= 65

C16_OnlyPositiveMultiples ==
    \A n \in Cached :
        LET img == Decode(n).img
        IN  /\ img.width = unit_width
            /\ img.height > 0
            /\ img.height % unit_height = 0

\* C17: two distinct cached names have different positions, and their
\* unit_width x unit_height slots share no pixel.
C17_SlotsDisjoint ==
    \A n \in Cached, m \in Cached :
        n # m
        => LET p == tile_positions[n]
               q == tile_positions[m]
           IN  /\ p # q
               /\ \/ p[1] + unit_width <= q[1]
                  \/ q[1] + unit_width <= p[1]
                  \/ p[2] + unit_height <= q[2]
                  \/ q[2] + unit_height <= p[2]

\* C17 witness: eighteen names on the doubled canvas.
C17_Witness ==
    /\ Loaded = 18
    /\ image.width = 2 * InitialTiles * unit_width
    /\ unit_width # unit_height

\* The k-th slot of the ring around a square of the given size, in pixels.
RingSlot(k, size) ==
    IF k < size THEN <<k * unit_width, size * unit_height>>
    ELSE <<size * unit_width, (k - size) * unit_height>>

\* C18: 0 <= position <= 2 * size, size^2 + position names are cached, and
\* the slots taken are those of the size x size square and the first
\* `position` slots of the ring around it.
C18_CursorMatchesCache ==
    /\ 0 <= position
    /\ position <= 2 * completed_tiles_size
    /\ Loaded = completed_tiles_size * completed_tiles_size + position
    /\ {tile_positions[n] : n \in Cached} =
          {<<tx * unit_width, ty * unit_height>> :
              tx \in 0..(completed_tiles_size - 1),
              ty \in 0..(completed_tiles_size - 1)}
          \cup {RingSlot(k, completed_tiles_size) : k \in 0..(position - 1)}

\* C18 witness: around the 7 x 7 square the row is full and the column
\* begun, on the canvas doubled once.
C18_Witness ==
    /\ completed_tiles_size = 7
    /\ position = 9
    /\ Loaded = 58
    /\ image.width = 8 * unit_width

\* A pixel of the slot at position p.
InSlot(p, x, y) ==
    /\ x >= p[1] /\ x < p[1] + unit_width
    /\ y >= p[2] /\ y < p[2] + unit_height

\* C19: a load that places a name changes no pixel outside the slot it
\* returns, whatever the frames of the file (a pixel the expansion adds is
\* the default pixel); the slots lie on the grid of tile units, and every
\* pixel in no cached name's slot is the default pixel.
C19_OnlyOwnSlot ==
    /\ [][\A n \in Names :
            Places(n)
            => \A x \in 0..(image'.width - 1), y \in 0..(image'.height - 1) :
                  ~InSlot(ret', x, y)
                  => GetPixel(image', x, y) =
                        IF x < image.width /\ y < image.height
                        THEN GetPixel(image, x, y) ELSE DefaultPixel]_vars
    /\ [](LET taken == {tile_positions[n] : n \in Cached}
          IN  /\ \A p \in taken : p[1] % unit_width = 0 /\ p[2] % unit_height = 0
              /\ \A tx \in 0..(image.width \div unit_width - 1),
                    ty \in 0..(image.height \div unit_height - 1) :
                    <<tx * unit_width, ty * unit_height>> \notin taken
                    => \A i \in 0..(unit_width - 1), j \in 0..(unit_height - 1) :
                          GetPixel(image, tx * unit_width + i, ty * unit_height + j)
                             = DefaultPixel)

\* C19 witness: a file of two frames went to the slot (1, 0); the slot
\* below it is untouched.
C19_Witness ==
    /\ fs = "mixed"
    /\ LastCall("load", <<"tile", 3>>)
    /\ Decode(<<"tile", 3>>).img.height = 2 * unit_height
    /\ ret = <<unit_width, 0>>
    /\ GetPixel(image, unit_width, 0) # DefaultPixel
    /\ GetPixel(image, unit_width, unit_height) = DefaultPixel

====
